---- MODULE Spec2Model ----
(***************************************************************************)
(* Risk scoring engine and alert store of the eldercare API server         *)
(* (src/unnamed/part_005).                                                 *)
(*                                                                         *)
(* Representation.                                                         *)
(*  - A JavaScript value that reaches a handler from a request is a record *)
(*    [t, s, n]: t is the JS type tag, s the string payload, n the number  *)
(*    payload.  Strings on which the code does no character-level work     *)
(*    (subject ids, alert type, severity, status) are TLA+ strings.        *)
(*  - A text the code parses (a route parameter, a CSV cell) is a sequence *)
(*    of one-character strings, so that parseInt / parseFloat are computed *)
(*    as the engine computes them.                                         *)
(*  - A JS number produced by parseFloat is [nan, n] with n in tenths      *)
(*    (0.5 is 5); the cells of the model carry at most one decimal digit.  *)
(*  - Date values are points of a logical clock 0..MaxTime.                *)
(*  - Payload fields of an alert that no handler reads (steps_sum,         *)
(*    active_minutes, meta) are left out of the alert record.              *)
(*                                                                         *)
(* Spec is the server from module evaluation through startServer to the    *)
(* alert routes; SpecClassify boots on larger populations and serves       *)
(* GET /api/risk-levels, for the threshold engine and the classifier;      *)
(* SpecRoster boots on tables and attribute files and serves the people    *)
(* routes; SpecStable serves GET /api/people between alert commands;       *)
(* SpecSubject serves the subject list and the subject view; SpecLoad      *)
(* runs initializeData step by step on directories with missing files.     *)
(***************************************************************************)
EXTENDS Integers, Sequences, FiniteSets, TLC

VARIABLES
  phase,           \* "boot" before startServer runs, "tables", "roster", "loaded" as
                   \* initializeData advances, "serving" once the server listens
  outputs,         \* merged_scored.csv and qc_sensor_counts.csv under OUTPUTS_DIR
  merged,          \* dataCache.get('merged_scored')
  qc,              \* dataCache.get('qc_sensor_counts')
  attributeFiles,  \* the two subject attribute files under DATA_DIR
  roster,          \* dataCache.get('subject_roster')
  alerts,          \* const alerts = []
  alertIdCounter,  \* let alertIdCounter = 1
  clock,           \* last value read from the system clock
  req,             \* the request the last handler served
  pre,             \* alerts and alertIdCounter as that handler found them
  res,             \* the response that handler sent
  seen             \* the thresholds of the first GET /api/people response, and
                   \* the alert commands that succeeded since

\* what initializeData loads
loaded == <<outputs, merged, qc, attributeFiles, roster>>

vars == <<phase, loaded, alerts, alertIdCounter, clock, req, pre, res, seen>>

(***************************************************************************)
(* Bounds of the model.                                                    *)
(***************************************************************************)
MaxRows == 1      \* rows of merged_scored.csv when the server boots
MaxAlerts == 2    \* POST /api/alerts is explored while the store is shorter
MaxTime == 1      \* last point of the logical clock
MaxPop == 3       \* rows of merged_scored.csv in the classifier specification
MaxSource == 2    \* rows of merged_scored.csv in the roster specification
MaxRecords == 2   \* rows of merged_scored.csv in the subject-view specification

(***************************************************************************)
(* JavaScript values.                                                      *)
(***************************************************************************)
JsUndefined == [t |-> "undefined", s |-> "", n |-> 0]
JsNull == [t |-> "null", s |-> "", n |-> 0]
JsString(str) == [t |-> "string", s |-> str, n |-> 0]

\* Truthy with every string taken as true
TruthyAnyString(v) ==
  CASE v.t = "undefined" -> FALSE
    [] v.t = "null" -> FALSE
    [] v.t = "number" -> v.n # 0
    [] OTHER -> TRUE

\* ToBoolean: undefined, null, "" and 0 are falsy.
Truthy(v) ==
  CASE v.t = "undefined" -> FALSE
    [] v.t = "null" -> FALSE
    [] v.t = "string" -> v.s # ""
    [] v.t = "number" -> v.n # 0
    [] OTHER -> TRUE

\* DefaultTo that overrides the value the request gave
DefaultToAlways(v, d) == JsString(d)

\* a destructuring default `{ x = d }` applies to undefined only
DefaultTo(v, d) == IF v.t = "undefined" THEN JsString(d) ELSE v

(***************************************************************************)
(* Texts and their parsing.                                                *)
(***************************************************************************)
Digits == {"0", "1", "2", "3", "4", "5", "6", "7", "8", "9"}

DigitVal(c) ==
  CASE c = "0" -> 0 [] c = "1" -> 1 [] c = "2" -> 2 [] c = "3" -> 3
    [] c = "4" -> 4 [] c = "5" -> 5 [] c = "6" -> 6 [] c = "7" -> 7
    [] c = "8" -> 8 [] c = "9" -> 9

NaN == [nan |-> TRUE, n |-> 0]
Num(k) == [nan |-> FALSE, n |-> k]

RECURSIVE SkipSpaces(_)
SkipSpaces(cs) ==
  IF cs # <<>> /\ Head(cs) = " " THEN SkipSpaces(Tail(cs)) ELSE cs

\* the longest prefix of digits of cs
RECURSIVE DigitPrefix(_)
DigitPrefix(cs) ==
  IF cs # <<>> /\ Head(cs) \in Digits
    THEN <<Head(cs)>> \o DigitPrefix(Tail(cs))
    ELSE <<>>

RECURSIVE DigitsValue(_, _)
DigitsValue(ds, acc) ==
  IF ds = <<>> THEN acc ELSE DigitsValue(Tail(ds), 10 * acc + DigitVal(Head(ds)))

Drop(cs, k) == SubSeq(cs, k + 1, Len(cs))

\* parseInt(text) in radix 10: leading white space, a sign, then the longest
\* run of digits; NaN when there is no digit.
parseInt(text) ==
  LET s0 == SkipSpaces(text)
      neg == s0 # <<>> /\ Head(s0) = "-"
      s1 == IF s0 # <<>> /\ Head(s0) \in {"-", "+"} THEN Tail(s0) ELSE s0
      ds == DigitPrefix(s1)
  IN IF ds = <<>> THEN NaN
     ELSE Num(IF neg THEN 0 - DigitsValue(ds, 0) ELSE DigitsValue(ds, 0))

\* parseFloat(text), in tenths: leading white space, a sign, digits, then an
\* optional "." and digits; NaN when neither part has a digit.
parseFloat(text) ==
  LET s0 == SkipSpaces(text)
      neg == s0 # <<>> /\ Head(s0) = "-"
      s1 == IF s0 # <<>> /\ Head(s0) \in {"-", "+"} THEN Tail(s0) ELSE s0
      ip == DigitPrefix(s1)
      s2 == Drop(s1, Len(ip))
      fp == IF s2 # <<>> /\ Head(s2) = "." THEN DigitPrefix(Tail(s2)) ELSE <<>>
      tenths == 10 * DigitsValue(ip, 0) + (IF fp = <<>> THEN 0 ELSE DigitVal(Head(fp)))
  IN IF ip = <<>> /\ fp = <<>> THEN NaN
     ELSE Num(IF neg THEN 0 - tenths ELSE tenths)

\* a CSV cell: absent (the record has no such key) or a text
NoCell == [def |-> FALSE, c |-> <<>>]
Cell(text) == [def |-> TRUE, c |-> text]
CellTruthy(cell) == cell.def /\ cell.c # <<>>

\* JS relational operators on numbers: every comparison with NaN is false
NumLe(a, b) == ~a.nan /\ ~b.nan /\ a.n <= b.n
NumLt(a, b) == ~a.nan /\ ~b.nan /\ a.n < b.n

(***************************************************************************)
(* Threshold engine and classifier.                                        *)
(***************************************************************************)
RECURSIVE InsertSorted(_, _)
InsertSorted(x, sorted) ==
  IF sorted = <<>> THEN <<x>>
  ELSE IF x <= Head(sorted) THEN <<x>> \o sorted
  ELSE <<Head(sorted)>> \o InsertSorted(x, Tail(sorted))

\* Array.prototype.sort((a,b)=>a-b) on finite numbers
RECURSIVE SortAscending(_)
SortAscending(xs) ==
  IF xs = <<>> THEN <<>> ELSE InsertSorted(Head(xs), SortAscending(Tail(xs)))

\* the rows that hold a usable independence_index, parsed (order kept)
RECURSIVE ValidIndices(_)
ValidIndices(rows) ==
  IF rows = <<>> THEN <<>>
  ELSE LET c == Head(rows).independence_index
       IN (IF CellTruthy(c) /\ ~parseFloat(c.c).nan
             THEN <<parseFloat(c.c).n>> ELSE <<>>)
          \o ValidIndices(Tail(rows))

\* LowPosition rounding up
LowPositionCeil(length) == (length * 33 + 99) \div 100

\* Math.floor(length * 0.33) and Math.floor(length * 0.66)
LowPosition(length) == (length * 33) \div 100
HighPosition(length) == (length * 66) \div 100

computeRiskThresholds(rows) ==
  LET valid == ValidIndices(rows)
      sorted == SortAscending(valid)
  IN IF Len(valid) >= 3
       THEN [method |-> "quantile",
             low |-> Num(sorted[LowPosition(Len(valid)) + 1]),
             high |-> Num(sorted[HighPosition(Len(valid)) + 1])]
       ELSE [method |-> "fixed", low |-> Num(0 - 5), high |-> Num(5)]

\* categorizeRisk with the lower boundary exclusive
categorizeRiskStrict(score, thresholds) ==
  IF NumLt(score, thresholds.low) THEN "Low"
  ELSE IF NumLe(score, thresholds.high) THEN "Medium"
  ELSE "High"

\* categorizeRisk with the first comparison turned around
categorizeRiskFlipped(score, thresholds) ==
  IF NumLe(thresholds.low, score) THEN "Low"
  ELSE IF NumLe(score, thresholds.high) THEN "Medium"
  ELSE "High"

categorizeRisk(score, thresholds) ==
  IF NumLe(score, thresholds.low) THEN "Low"
  ELSE IF NumLe(score, thresholds.high) THEN "Medium"
  ELSE "High"

(***************************************************************************)
(* Alert store.                                                            *)
(***************************************************************************)
NoIndex == [has |-> FALSE, v |-> NaN]
SomeIndex(score) == [has |-> TRUE, v |-> score]

NewAlert(id, subject_id, type, severity, index, createdAt, updatedAt) ==
  [id |-> id, subject_id |-> subject_id, type |-> type, severity |-> severity,
   status |-> "open", independence_index |-> index,
   createdAt |-> createdAt, updatedAt |-> updatedAt]

\* AlertsOfRow with both alerts of a row reading the counter once
AlertsOfRowSameId(row, thresholds, now, counter) ==
  IF ~CellTruthy(row.independence_index) THEN <<>>
  ELSE
    LET score == parseFloat(row.independence_index.c)
        high == IF categorizeRisk(score, thresholds) = "High"
                  THEN <<NewAlert(counter, JsString(row.subject_id), JsString("risk_high"),
                                  JsString("high"), SomeIndex(score), now, now)>>
                  ELSE <<>>
        low == IF CellTruthy(row.active_minutes)
                  /\ NumLt(parseFloat(row.active_minutes.c), Num(600))
                 THEN <<NewAlert(counter, JsString(row.subject_id),
                                 JsString("low_activity"), JsString("medium"),
                                 SomeIndex(score), now, now)>>
                 ELSE <<>>
    IN high \o low

\* the alerts one row of merged_scored contributes, given the next free id
AlertsOfRow(row, thresholds, now, counter) ==
  IF ~CellTruthy(row.independence_index) THEN <<>>
  ELSE
    LET score == parseFloat(row.independence_index.c)
        risk == categorizeRisk(score, thresholds)
        high == IF risk = "High"
                  THEN <<NewAlert(counter, JsString(row.subject_id), JsString("risk_high"),
                                  JsString("high"), SomeIndex(score), now, now)>>
                  ELSE <<>>
        low == IF CellTruthy(row.active_minutes)
                  /\ NumLt(parseFloat(row.active_minutes.c), Num(600))
                 THEN <<NewAlert(counter + Len(high), JsString(row.subject_id),
                                 JsString("low_activity"), JsString("medium"),
                                 SomeIndex(score), now, now)>>
                 ELSE <<>>
    IN high \o low

RECURSIVE AlertsOfRows(_, _, _, _)
AlertsOfRows(rows, thresholds, now, counter) ==
  IF rows = <<>> THEN <<>>
  ELSE LET first == AlertsOfRow(Head(rows), thresholds, now, counter)
       IN first \o AlertsOfRows(Tail(rows), thresholds, now, counter + Len(first))

\* initializeAlerts(): the alerts pushed for the loaded table
initializeAlerts(table, now, counter) ==
  AlertsOfRows(table, computeRiskThresholds(table), now, counter)

\* a.status === status, for a query value
StatusIs(a, status) == status.t = "string" /\ status.s = a.status

\* alerts.find(a => a.id === id): the position of the first match, 0 if none
RECURSIVE FindFrom(_, _, _)
FindFrom(list, id, i) ==
  IF i > Len(list) THEN 0
  ELSE IF ~id.nan /\ list[i].id = id.n THEN i
  ELSE FindFrom(list, id, i + 1)

\* FindAlert that starts at the second alert
FindAlertSkipFirst(list, id) == FindFrom(list, id, 2)

FindAlert(list, id) == FindFrom(list, id, 1)

\* SetStatus that cuts the list off after a declined alert
SetStatusDropDeclined(list, i, target, now) ==
  IF target = "declined"
    THEN SubSeq([list EXCEPT ![i].status = target, ![i].updatedAt = now], 1, i)
    ELSE [list EXCEPT ![i].status = target, ![i].updatedAt = now]

\* SetStatus that leaves a resolved alert as it is
SetStatusOnce(list, i, target, now) ==
  IF list[i].status = "open"
    THEN [list EXCEPT ![i].status = target, ![i].updatedAt = now]
    ELSE list

\* SetStatus that stamps createdAt as well
SetStatusStamped(list, i, target, now) ==
  [list EXCEPT ![i].status = target, ![i].updatedAt = now, ![i].createdAt = now]

\* alert.status = target; alert.updatedAt = new Date().toISOString()
SetStatus(list, i, target, now) ==
  [list EXCEPT ![i].status = target, ![i].updatedAt = now]

\* FilterByStatus that keeps every alert
FilterByStatusAll(list, status) == list

\* list.filter(a => a.status === status)
RECURSIVE FilterByStatus(_, _)
FilterByStatus(list, status) ==
  IF list = <<>> THEN <<>>
  ELSE (IF StatusIs(Head(list), status) THEN <<Head(list)>> ELSE <<>>)
       \o FilterByStatus(Tail(list), status)

(***************************************************************************)
(* Inputs.                                                                 *)
(***************************************************************************)
\* cells of the independence_index column: absent, empty, not a number,
\* and numbers on both sides of the fixed cut points -0.5 and 0.5
(***************************************************************************)
(* The subject roster (buildSubjectRoster).  A roster entry is a text, a   *)
(* sequence of one-character strings; Chars gives the text of a subject id *)
(* of a table row.                                                         *)
(***************************************************************************)
\* String(r.subject_id): the characters of the subject ids the tables use
Chars(str) ==
  CASE str = "" -> <<>>
    [] str = "S1" -> <<"S", "1">>
    [] str = "S2" -> <<"S", "2">>
    [] str = "S3" -> <<"S", "3">>
    [] str = "S10" -> <<"S", "1", "0">>
    [] str = " S1" -> <<" ", "S", "1">>

\* the UTF-16 code unit of a character of the texts of the model
CharCode(c) ==
  CASE c = " " -> 32 [] c = "\"" -> 34 [] c = "," -> 44
    [] c = "0" -> 48 [] c = "1" -> 49 [] c = "2" -> 50 [] c = "3" -> 51
    [] c = "D" -> 68 [] c = "I" -> 73 [] c = "S" -> 83 [] c = "_" -> 95
    [] c = "a" -> 97 [] c = "b" -> 98 [] c = "c" -> 99 [] c = "d" -> 100
    [] c = "e" -> 101 [] c = "i" -> 105 [] c = "j" -> 106 [] c = "s" -> 115
    [] c = "t" -> 116 [] c = "u" -> 117 [] c = "x" -> 120

\* the order Array.prototype.sort() uses without a comparator
RECURSIVE LexLess(_, _)
LexLess(a, b) ==
  IF a = <<>> THEN b # <<>>
  ELSE IF b = <<>> THEN FALSE
  ELSE IF Head(a) = Head(b) THEN LexLess(Tail(a), Tail(b))
  ELSE CharCode(Head(a)) < CharCode(Head(b))

LowerChar(c) ==
  CASE c = "D" -> "d" [] c = "I" -> "i" [] c = "S" -> "s" [] OTHER -> c

toLowerCase(text) == [i \in 1..Len(text) |-> LowerChar(text[i])]

RECURSIVE DropSpacesAtEnd(_)
DropSpacesAtEnd(text) ==
  IF text # <<>> /\ text[Len(text)] = " "
    THEN DropSpacesAtEnd(SubSeq(text, 1, Len(text) - 1))
    ELSE text

trim(text) == DropSpacesAtEnd(SkipSpaces(text))

\* the position of the first comma of text, 0 when it has none
RECURSIVE FirstComma(_, _)
FirstComma(text, from) ==
  IF from > Len(text) THEN 0
  ELSE IF text[from] = "," THEN from
  ELSE FirstComma(text, from + 1)

\* m[1] of line.match(/^\s*[^,]*,\s*([^,\r\n]+)\s*,/), <<>> when there is no
\* match: the text between the first two commas without its leading white
\* space (its last character when it is all white space)
SecondColumn(line) ==
  LET first == FirstComma(line, 1)
      second == IF first = 0 THEN 0 ELSE FirstComma(line, first + 1)
      field == SubSeq(line, first + 1, second - 1)
  IN IF first = 0 \/ second = 0 \/ field = <<>> THEN <<>>
     ELSE IF SkipSpaces(field) = <<>> THEN <<field[Len(field)]>>
     ELSE SkipSpaces(field)

\* text.replace(/^"|"$/g, '')
StripQuotes(text) ==
  LET open == IF text # <<>> /\ Head(text) = "\"" THEN Tail(text) ELSE text
  IN IF open # <<>> /\ open[Len(open)] = "\""
       THEN SubSeq(open, 1, Len(open) - 1)
       ELSE open

SubjectIdWord == <<"s", "u", "b", "j", "e", "c", "t", "_", "i", "d">>

\* SetAdd without the membership test of a Set
SetAddAgain(set, id) == Append(set, id)

\* roster.add(id) on the Set, kept in insertion order
SetAdd(set, id) ==
  IF \E i \in 1..Len(set) : set[i] = id THEN set ELSE Append(set, id)

\* rows.forEach(r => r.subject_id && roster.add(String(r.subject_id)))
RECURSIVE AddFromRows(_, _)
AddFromRows(set, rows) ==
  IF rows = <<>> THEN set
  ELSE AddFromRows(IF Head(rows).subject_id # ""
                     THEN SetAdd(set, Chars(Head(rows).subject_id))
                     ELSE set,
                   Tail(rows))

\* the body of the loop of addFromAttributeFile for one line
AddFromLine(set, line) ==
  IF line = <<>> \/ FirstComma(line, 1) = 0 THEN set
  ELSE LET m1 == SecondColumn(line)
           id == trim(StripQuotes(m1))
       IN IF m1 # <<>> /\ id # <<>> /\ toLowerCase(id) # SubjectIdWord
            THEN SetAdd(set, id)
            ELSE set

RECURSIVE AddFromLines(_, _)
AddFromLines(set, lines) ==
  IF lines = <<>> THEN set ELSE AddFromLines(AddFromLine(set, Head(lines)), Tail(lines))

\* a source of the roster: the rows of a table or the lines of an attribute
\* file (no lines when the file does not exist)
RowSource(rows) == [kind |-> "rows", rows |-> rows, lines |-> <<>>]
FileSource(file) ==
  [kind |-> "file", rows |-> <<>>, lines |-> IF file.exists THEN file.lines ELSE <<>>]

RECURSIVE AddFromSources(_, _)
AddFromSources(set, sources) ==
  IF sources = <<>> THEN set
  ELSE AddFromSources(IF Head(sources).kind = "rows"
                        THEN AddFromRows(set, Head(sources).rows)
                        ELSE AddFromLines(set, Head(sources).lines),
                      Tail(sources))

RECURSIVE InsertId(_, _)
InsertId(sorted, id) ==
  IF sorted = <<>> THEN <<id>>
  ELSE IF LexLess(id, Head(sorted)) THEN <<id>> \o sorted
  ELSE <<Head(sorted)>> \o InsertId(Tail(sorted), id)

\* SortIds leaving the ids in insertion order
SortIdsKeepOrder(ids) == ids

\* Array.from(roster).sort()
RECURSIVE SortIds(_)
SortIds(ids) ==
  IF ids = <<>> THEN <<>> ELSE InsertId(SortIds(Tail(ids)), Head(ids))

\* the sources in the order buildSubjectRoster reads them
RosterSources(mergedRows, qcRows, files) ==
  <<RowSource(mergedRows), RowSource(qcRows)>>
    \o [i \in 1..Len(files) |-> FileSource(files[i])]

RosterOf(sources) == SortIds(AddFromSources(<<>>, sources))

buildSubjectRoster(mergedRows, qcRows, files) ==
  RosterOf(RosterSources(mergedRows, qcRows, files))

(***************************************************************************)
(* The subject list (GET /api/people).  The keys of byId are texts; pool   *)
(* is Object.values(byId), in insertion order for keys that are not        *)
(* integers.  null is NoIndex for a number and NoQc for the QC summary.    *)
(* A z-score is in thousandths, a derived index in tenths like the other   *)
(* indices.  The tables of this model carry numeric or absent index cells: *)
(* the order sort((a,b)=>a-b) gives a population holding NaN is left to    *)
(* the engine.                                                             *)
(***************************************************************************)
NoQc == [has |-> FALSE, avg_steps |-> NoIndex, avg_active_minutes |-> NoIndex]

\* cell ? parseFloat(cell) : null
ParsedOrNull(cell) == IF CellTruthy(cell) THEN SomeIndex(parseFloat(cell.c)) ELSE NoIndex

QcSummary(q) ==
  [has |-> TRUE, avg_steps |-> ParsedOrNull(q.avg_steps),
   avg_active_minutes |-> ParsedOrNull(q.avg_active_minutes)]

Person(sid, index, source) ==
  [subject_id |-> sid, independence_index |-> index, risk_level |-> "null",
   qc |-> NoQc, index_source |-> source]

\* the position of byId[sid] in the pool, 0 when !byId[sid]
RECURSIVE FindPersonFrom(_, _, _)
FindPersonFrom(pool, sid, from) ==
  IF from > Len(pool) THEN 0
  ELSE IF pool[from].subject_id = sid THEN from
  ELSE FindPersonFrom(pool, sid, from + 1)

FindPerson(pool, sid) == FindPersonFrom(pool, sid, 1)

\* merged.forEach: the first row of a subject makes its record
RECURSIVE AddMerged(_, _)
AddMerged(pool, rows) ==
  IF rows = <<>> THEN pool
  ELSE LET sid == Chars(Head(rows).subject_id)
       IN AddMerged(IF FindPerson(pool, sid) = 0
                      THEN Append(pool, Person(sid, ParsedOrNull(Head(rows).independence_index),
                                               "model"))
                      ELSE pool,
                    Tail(rows))

\* qc.forEach: a record for a new subject, then the summary of the row
RECURSIVE EnrichWithQc(_, _)
EnrichWithQc(pool, rows) ==
  IF rows = <<>> THEN pool
  ELSE LET sid == Chars(Head(rows).subject_id)
           with == IF FindPerson(pool, sid) = 0
                     THEN Append(pool, Person(sid, NoIndex, "unknown"))
                     ELSE pool
           i == FindPerson(with, sid)
       IN EnrichWithQc([with EXCEPT ![i].qc = QcSummary(Head(rows))], Tail(rows))

\* roster.forEach: a record for every roster id that has none
RECURSIVE AddRoster(_, _)
AddRoster(pool, ids) ==
  IF ids = <<>> THEN pool
  ELSE AddRoster(IF FindPerson(pool, Head(ids)) = 0
                   THEN Append(pool, Person(Head(ids), NoIndex, "unknown"))
                   ELSE pool,
                 Tail(ids))

\* pool.map(p => p.qc?.[field]).filter(v => v != null)
RECURSIVE QcValues(_, _)
QcValues(pool, field) ==
  IF pool = <<>> THEN <<>>
  ELSE (IF Head(pool).qc[field].has THEN <<Head(pool).qc[field].v>> ELSE <<>>)
         \o QcValues(Tail(pool), field)

RECURSIVE SumOf(_)
SumOf(ks) == IF ks = <<>> THEN 0 ELSE Head(ks) + SumOf(Tail(ks))

\* the largest r with r * r <= x, for lo * lo <= x < hi * hi
RECURSIVE SqrtBetween(_, _, _)
SqrtBetween(x, lo, hi) ==
  IF hi - lo <= 1 THEN lo
  ELSE LET mid == (lo + hi) \div 2
       IN IF mid * mid <= x THEN SqrtBetween(x, mid, hi) ELSE SqrtBetween(x, lo, mid)

Sqrt(x) == SqrtBetween(x, 0, IF x < 46340 THEN x + 1 ELSE 46340)

\* meanStd(arr) over tenths, kept exact: count n, sum of the values, and
\* dev = the std times n (mean is sum / n; std is the square root of the
\* squared deviations over max(1, n - 1), 1 when that is 0 or NaN)
meanStd(arr) ==
  LET n == Len(arr)
      sum == SumOf([i \in 1..n |-> arr[i].n])
      squares == SumOf([i \in 1..n |-> (arr[i].n * n - sum) * (arr[i].n * n - sum)])
      spread == IF n = 0 THEN 0 ELSE Sqrt(squares \div (IF n > 1 THEN n - 1 ELSE 1))
  IN [nan |-> \E i \in 1..n : arr[i].nan, n |-> n, sum |-> sum,
      dev |-> IF spread = 0 THEN 10 * n ELSE spread]

\* z(v, s) in thousandths: 0 for null, NaN when v or the mean is NaN
z(v, s) ==
  IF ~v.has THEN Num(0)
  ELSE IF v.v.nan \/ s.nan THEN NaN
  ELSE IF s.n = 0 THEN Num(100 * v.v.n)
  ELSE Num((1000 * (v.v.n * s.n - s.sum)) \div s.dev)

\* k / d to the nearest integer
Rounded(k, d) == (2 * k + d) \div (2 * d)

\* DerivedIndex with the two weights exchanged
DerivedIndexSwapped(zs, za) ==
  Num(Rounded((IF zs.nan THEN 0 ELSE 3 * zs.n) + (IF za.nan THEN 0 ELSE 7 * za.n), 1000))

\* (isFinite(zs) ? 0.7*zs : 0) + (isFinite(za) ? 0.3*za : 0), in tenths
DerivedIndex(zs, za) ==
  Num(Rounded((IF zs.nan THEN 0 ELSE 7 * zs.n) + (IF za.nan THEN 0 ELSE 3 * za.n), 1000))

\* the first pool.forEach: the derived index of the records without one
Derive(pool, S, A) ==
  [i \in 1..Len(pool) |->
     LET p == pool[i]
     IN IF ~p.independence_index.has /\ (p.qc.avg_steps.has \/ p.qc.avg_active_minutes.has)
          THEN [p EXCEPT !.independence_index =
                           SomeIndex(DerivedIndex(z(p.qc.avg_steps, S),
                                                  z(p.qc.avg_active_minutes, A))),
                         !.index_source = "qc_derived"]
          ELSE p]

\* indices: the index of every record that has one, as tenths
RECURSIVE IndicesOf(_)
IndicesOf(pool) ==
  IF pool = <<>> THEN <<>>
  ELSE (IF Head(pool).independence_index.has
          THEN <<Head(pool).independence_index.v.n>> ELSE <<>>)
         \o IndicesOf(Tail(pool))

\* thresholds recomputed over the combined indices when there are 3 or more
CombinedThresholds(indices, thresholds) ==
  IF Len(indices) >= 3
    THEN LET sorted == SortAscending(indices)
         IN [method |-> "quantile_combined",
             low |-> Num(sorted[LowPosition(Len(sorted)) + 1]),
             high |-> Num(sorted[HighPosition(Len(sorted)) + 1])]
    ELSE thresholds

\* the second pool.forEach: the risk level of the records with an index
AssignRisk(pool, thresholds) ==
  [i \in 1..Len(pool) |->
     IF pool[i].independence_index.has
       THEN [pool[i] EXCEPT !.risk_level = categorizeRisk(pool[i].independence_index.v,
                                                          thresholds)]
       ELSE pool[i]]

\* AfterThresholds sorting the rows themselves by index
AfterThresholdsSorted(rows) ==
  IF Len(ValidIndices(rows)) = Len(rows)
    THEN LET sorted == SortAscending(ValidIndices(rows))
         IN [i \in 1..Len(rows) |->
               rows[CHOOSE j \in 1..Len(rows) :
                      parseFloat(rows[j].independence_index.c) = Num(sorted[i])]]
    ELSE rows

\* the rows of the table after computeRiskThresholds(rows): map and filter
\* build the array `valid`, and it is `valid` that sort() orders in place
AfterThresholds(rows) == rows

\* the body of GET /api/people: people and thresholds
getSubjects(mergedRows, qcRows, ids) ==
  LET base == AddRoster(EnrichWithQc(AddMerged(<<>>, mergedRows), qcRows), ids)
      S == meanStd(QcValues(base, "avg_steps"))
      A == meanStd(QcValues(base, "avg_active_minutes"))
      pool == Derive(base, S, A)
      thresholds == CombinedThresholds(IndicesOf(pool), computeRiskThresholds(mergedRows))
  IN [people |-> AssignRisk(pool, thresholds), thresholds |-> thresholds]

(***************************************************************************)
(* The explanation of a risk level (computeFeatureContributions,           *)
(* buildRiskExplanation) and the subject view (GET /api/people/:id).  A    *)
(* reason phrase is the contribution it is printed from; summary_text is   *)
(* its kind and the reason phrases it joins.                               *)
(***************************************************************************)
\* Object.keys(FEATURE_LABELS)
FeatureKeys ==
  <<"steps_sum_z_w", "calories_sum_z_w", "temp_mean_z_w", "batt_mean_z_w",
    "active_minutes_z_w", "sleep_transitions_z_w", "bins_z_w", "life_life_c15_z_w",
    "life_life_c22_z_w", "life_life_c29_z_w", "life_life_c36_z_w", "cog_cog_c9_z_w">>

\* row[key] of the k-th key
FeatureCell(row, k) == IF k <= Len(row.features) THEN row.features[k] ELSE NoCell

Magnitude(k) == IF k < 0 THEN 0 - k ELSE k

\* the items pushed for the keys k and after, in the order of the keys
RECURSIVE FeatureItems(_, _)
FeatureItems(row, k) ==
  IF k > Len(FeatureKeys) THEN <<>>
  ELSE LET raw == FeatureCell(row, k)
           value == parseFloat(raw.c)
       IN (IF ~raw.def \/ raw.c = <<>> \/ value.nan THEN <<>>
           ELSE <<[key |-> FeatureKeys[k], value |-> value.n, abs |-> Magnitude(value.n),
                   direction |-> IF value.n >= 0 THEN "high" ELSE "low"]>>)
          \o FeatureItems(row, k + 1)

\* item put before the first element of smaller magnitude (items of equal
\* magnitude keep the order of the keys)
RECURSIVE InsertByAbs(_, _)
InsertByAbs(item, sorted) ==
  IF sorted = <<>> THEN <<item>>
  ELSE IF Head(sorted).abs < item.abs THEN <<item>> \o sorted
  ELSE <<Head(sorted)>> \o InsertByAbs(item, Tail(sorted))

\* items.sort((a, b) => b.abs - a.abs)
RECURSIVE SortByAbs(_)
SortByAbs(items) ==
  IF items = <<>> THEN <<>>
  ELSE InsertByAbs(items[Len(items)], SortByAbs(SubSeq(items, 1, Len(items) - 1)))

computeFeatureContributions(row) == SortByAbs(FeatureItems(row, 1))

\* list.slice(0, k)
Slice(list, k) == SubSeq(list, 1, IF Len(list) < k THEN Len(list) ELSE k)

\* cell != null ? parseFloat(cell) : null
ParsedUnlessNull(cell) == IF cell.def THEN SomeIndex(parseFloat(cell.c)) ELSE NoIndex

\* score != null ? categorizeRisk(score, thresholds) : null
RiskOrNull(score, thresholds) ==
  IF score.has THEN categorizeRisk(score.v, thresholds) ELSE "null"

\* the reason phrase of an item: its label, "higher" or "lower", its value
Phrase(it) ==
  [key |-> it.key, dir |-> IF it.direction = "high" THEN "higher" ELSE "lower",
   value |-> it.value]

buildRiskExplanation(row, thresholds) ==
  LET score == ParsedUnlessNull(row.independence_index)
      risk_level == RiskOrNull(score, thresholds)
      contributions == computeFeatureContributions(row)
      top == Slice(contributions, 5)
      reasonPhrases == [i \in 1..Len(top) |-> Phrase(top[i])]
  IN [risk_level |-> risk_level,
      independence_index |-> score,
      thresholds |-> thresholds,
      summary_text |-> IF risk_level # "null"
                         THEN [kind |-> "risk", reasons |-> Slice(reasonPhrases, 3)]
                         ELSE [kind |-> "unavailable", reasons |-> <<>>],
      reasons |-> reasonPhrases,
      contributions |-> [i \in 1..Len(contributions) |->
                           [key |-> contributions[i].key, value |-> contributions[i].value,
                            direction |-> contributions[i].direction]]]

\* merged.filter(r => String(r.subject_id) === String(id))
RECURSIVE RowsOf(_, _)
RowsOf(rows, id) ==
  IF rows = <<>> THEN <<>>
  ELSE (IF Chars(Head(rows).subject_id) = id THEN <<Head(rows)>> ELSE <<>>)
         \o RowsOf(Tail(rows), id)

\* qc.map(r => r[field]).filter(v => v != null).map(parseFloat)
RECURSIVE QcParsed(_, _)
QcParsed(rows, field) ==
  IF rows = <<>> THEN <<>>
  ELSE (IF Head(rows)[field].def THEN <<parseFloat(Head(rows)[field].c)>> ELSE <<>>)
         \o QcParsed(Tail(rows), field)

\* the derived index of every QC row (a sum of finite terms, never filtered out)
RECURSIVE qcDerivedIndices(_, _, _)
qcDerivedIndices(rows, S, A) ==
  IF rows = <<>> THEN <<>>
  ELSE <<DerivedIndex(z(ParsedUnlessNull(Head(rows).avg_steps), S),
                      z(ParsedUnlessNull(Head(rows).avg_active_minutes), A)).n>>
         \o qcDerivedIndices(Tail(rows), S, A)

\* the contributions of the QC-based explanation: the finite z-scores
QcContributions(zs, za) ==
  (IF zs.nan THEN <<>>
   ELSE <<[key |-> "qc_avg_steps", value |-> zs.n,
           direction |-> IF zs.n >= 0 THEN "high" ELSE "low"]>>)
  \o (IF za.nan THEN <<>>
      ELSE <<[key |-> "qc_avg_active_minutes", value |-> za.n,
              direction |-> IF za.n >= 0 THEN "high" ELSE "low"]>>)

NotFound == [code |-> 404, error |-> "Not found"]

\* the model branch of GET /api/people/:id: the view of the subject's last row
ModelView(mergedRows, qcRows, id, personRows) ==
  LET thresholds == computeRiskThresholds(mergedRows)
      latest == personRows[Len(personRows)]
      score == ParsedOrNull(latest.independence_index)
  IN [code |-> 200, subject_id |-> id,
      metrics |-> [independence_index |-> score,
                   risk_level |-> RiskOrNull(score, thresholds)],
      records_count |-> Len(personRows),
      explanations |-> buildRiskExplanation(latest, thresholds),
      index_source |-> "undefined"]

\* the fallback of GET /api/people/:id: index and explanation from the QC row
QcView(mergedRows, qcRows, id, qcRow) ==
  LET S == meanStd(QcParsed(qcRows, "avg_steps"))
      A == meanStd(QcParsed(qcRows, "avg_active_minutes"))
      allIndices == ValidIndices(mergedRows) \o qcDerivedIndices(qcRows, S, A)
      thresholds == CombinedThresholds(allIndices,
                                       [method |-> "fixed", low |-> Num(0 - 5), high |-> Num(5)])
      zs == z(ParsedUnlessNull(qcRow.avg_steps), S)
      za == z(ParsedUnlessNull(qcRow.avg_active_minutes), A)
      derivedIndex == DerivedIndex(zs, za)
      risk == categorizeRisk(derivedIndex, thresholds)
      contributions == QcContributions(zs, za)
      reasons == [i \in 1..Len(contributions) |-> Phrase(contributions[i])]
  IN [code |-> 200, subject_id |-> id,
      metrics |-> [independence_index |-> SomeIndex(derivedIndex), risk_level |-> risk],
      records_count |-> 0,
      explanations |-> [risk_level |-> risk,
                        independence_index |-> SomeIndex(derivedIndex),
                        thresholds |-> thresholds,
                        summary_text |-> [kind |-> "risk", reasons |-> Slice(reasons, 2)],
                        reasons |-> reasons,
                        contributions |-> contributions],
      index_source |-> "qc_derived"]

\* getSubject without the fallback to the QC row
getSubjectModelOnly(mergedRows, qcRows, id) ==
  IF RowsOf(mergedRows, id) # <<>>
    THEN ModelView(mergedRows, qcRows, id, RowsOf(mergedRows, id))
    ELSE NotFound

\* the body of GET /api/people/:id
getSubject(mergedRows, qcRows, id) ==
  LET personRows == RowsOf(mergedRows, id)
      found == {i \in 1..Len(qcRows) : Chars(qcRows[i].subject_id) = id}
  IN IF personRows # <<>> THEN ModelView(mergedRows, qcRows, id, personRows)
     ELSE IF found = {} THEN NotFound
     ELSE QcView(mergedRows, qcRows, id,
                 qcRows[CHOOSE i \in found : \A j \in found : i <= j])

IndexCells ==
  {NoCell, Cell(<<>>), Cell(<<"a">>), Cell(<<"-", "1", ".", "5">>),
   Cell(<<"0", ".", "5">>), Cell(<<"2">>)}

\* a row of merged_scored.csv; features are the cells of the first
\* Len(features) keys of FEATURE_LABELS, the row has no further feature key
Row(sid, index, active) ==
  [subject_id |-> sid, independence_index |-> index, active_minutes |-> active,
   features |-> <<>>]

WithFeatures(row, cells) == [row EXCEPT !.features = cells]

\* the rows merged_scored.csv is made of when the alert store is explored
BootRows ==
  {Row("S1", Cell(<<"2">>), Cell(<<"3", "0">>)),
   Row("S2", Cell(<<"0", ".", "5">>), Cell(<<"3", "0">>)),
   Row("S1", Cell(<<"a">>), Cell(<<>>))}

\* the rows merged_scored.csv is made of when the classifier is explored
PopRows == {Row(sid, index, Cell(<<>>)) : sid \in {"S1"}, index \in IndexCells}

\* a population of seven indices, -2 to 4, in file order 3 -1 4 0 -2 2 1
QuantileExample ==
  <<Row("S1", Cell(<<"3">>), Cell(<<>>)), Row("S1", Cell(<<"-", "1">>), Cell(<<>>)),
    Row("S1", Cell(<<"4">>), Cell(<<>>)), Row("S1", Cell(<<"0">>), Cell(<<>>)),
    Row("S1", Cell(<<"-", "2">>), Cell(<<>>)), Row("S1", Cell(<<"2">>), Cell(<<>>)),
    Row("S1", Cell(<<"1">>), Cell(<<>>))>>

TablesOf(rows, maxLen) == UNION {[1..k -> rows] : k \in 0..maxLen}

\* JSON bodies of POST /api/alerts
CreateBodies ==
  {[subject_id |-> sid, type |-> JsUndefined, severity |-> JsUndefined] :
     sid \in {JsUndefined, JsNull, JsString(""), JsString("S1")}}
  \cup {[subject_id |-> JsString("S2"), type |-> JsString("fall"),
         severity |-> JsString("high")]}

\* the :id segment of /api/alerts/:id/ack and /api/alerts/:id/decline
IdParams ==
  {<<"1">>, <<" ", "1", "x">>, <<"-", "1">>, <<"x">>}

\* the status query of GET /api/alerts
StatusQueries ==
  {JsUndefined, JsString(""), JsString("open"), JsString("acked"),
   JsString("acknowledged"), JsString("declined")}

\* the method query of GET /api/risk-levels
MethodQueries == {JsUndefined, JsString("quantile"), JsString("fixed")}

Times == 0..MaxTime

\* an attribute file
File(lines) == [exists |-> TRUE, lines |-> lines]
MissingFile == [exists |-> FALSE, lines |-> <<>>]
NoFiles == <<MissingFile, MissingFile>>

\* a CSV file of OUTPUTS_DIR, parsed into records when it exists
CsvFile(rows) == [exists |-> TRUE, rows |-> rows]
MissingCsv == [exists |-> FALSE, rows |-> <<>>]

\* loadCSVData returning a table of one empty record for a missing file
loadCSVDataPlaceholder(file) ==
  IF file.exists THEN file.rows ELSE <<Row("", NoCell, NoCell)>>

\* loadCSVData: [] when the path does not exist, else the records read
loadCSVData(file) == IF file.exists THEN file.rows ELSE <<>>

\* a data directory holding merged_scored.csv only
OnlyMerged(tables) ==
  {[merged |-> table, qc |-> <<>>, files |-> NoFiles] : table \in tables}

\* a row of qc_sensor_counts.csv
QcRow(sid, steps, active) ==
  [subject_id |-> sid, avg_steps |-> steps, avg_active_minutes |-> active]

\* the rows merged_scored.csv is made of when the roster is explored
RosterRows ==
  {Row("S2", Cell(<<"2">>), Cell(<<>>)),
   Row(" S1", Cell(<<"0", ".", "5">>), Cell(<<>>)),
   Row("", Cell(<<"0", ".", "5">>), Cell(<<>>)),
   Row("S1", NoCell, Cell(<<>>))}

\* three devices whose averages have mean 100, std 20 and mean 50, std 10
QcCohort ==
  <<QcRow("S3", Cell(<<"8", "0">>), Cell(<<"6", "0">>)),
    QcRow("S1", Cell(<<"1", "0", "0">>), Cell(<<"5", "0">>)),
    QcRow("S2", Cell(<<"1", "2", "0">>), Cell(<<"4", "0">>))>>

QcTables ==
  {<<>>, QcCohort,
   <<QcRow("S2", Cell(<<>>), Cell(<<>>)), QcRow("S1", Cell(<<"a">>), Cell(<<"5", "0">>))>>}

\* lines of the attribute files: index, subject id, further columns
LineHeader == <<",", "S", "u", "b", "j", "e", "c", "t", "_", "I", "D", ",", "a">>
LineS3 == <<"1", ",", "S", "3", ",", "a">>
LineSpacedS1 == <<"2", ",", " ", "S", "1", " ", ",", "a">>
LineQuotedS2 == <<",", "\"", "S", "2", "\"", ",">>
LineNoComma == <<"S", "3">>
LineEmptyField == <<"1", ",", ",", "x">>
LineBlankField == <<"1", ",", " ", " ", ",", "x">>
LineS10 == <<"1", ",", "S", "1", "0", ",", "x">>

FileA == File(<<LineHeader, LineS3, LineSpacedS1, LineNoComma>>)
FileB == File(<<LineQuotedS2, LineEmptyField, <<>>, LineBlankField, LineS10, LineS3>>)

FilePairs == {NoFiles, <<FileA, MissingFile>>, <<FileA, FileB>>}

\* three subjects with a model index each, and no QC table
ThreeSubjects ==
  <<Row("S2", Cell(<<"2">>), Cell(<<>>)),
    Row("S10", Cell(<<"-", "1", ".", "5">>), Cell(<<>>)),
    Row("S3", Cell(<<"0", ".", "5">>), Cell(<<>>))>>

RosterInputs ==
  {[merged |-> table, qc |-> sensors, files |-> files] :
     table \in TablesOf(RosterRows, MaxSource), sensors \in QcTables, files \in FilePairs}
    \cup OnlyMerged({ThreeSubjects})

\* the id parameter of GET /api/people/:id
SubjectParams == {Chars("S1"), Chars("S2"), Chars("S3"), Chars("S10")}

\* nine feature cells: six numbers, an empty cell, a text and a missing key
NineFeatures ==
  <<Cell(<<"1">>), Cell(<<"-", "3">>), Cell(<<>>), Cell(<<"a">>), NoCell,
    Cell(<<"2">>), Cell(<<"-", "1">>), Cell(<<"0", ".", "5">>), Cell(<<"3">>)>>

\* the rows merged_scored.csv is made of when the subject view is explored
SubjectRows ==
  {WithFeatures(Row("S1", Cell(<<"2">>), Cell(<<>>)), NineFeatures),
   WithFeatures(Row("S1", Cell(<<>>), Cell(<<>>)), <<Cell(<<"-", "1">>)>>),
   Row("S1", NoCell, Cell(<<>>)),
   Row("S2", Cell(<<"-", "1", ".", "5">>), Cell(<<>>))}

\* the cohort of QcCohort with the active minutes unreadable, missing and empty
QcPartial ==
  <<QcRow("S3", Cell(<<"8", "0">>), Cell(<<"a">>)),
    QcRow("S1", Cell(<<"1", "0", "0">>), NoCell),
    QcRow("S2", Cell(<<"1", "2", "0">>), Cell(<<>>))>>

SubjectInputs ==
  {[merged |-> table, qc |-> sensors, files |-> NoFiles] :
     table \in TablesOf(SubjectRows, MaxRecords) \cup {ThreeSubjects},
     sensors \in QcTables \cup {QcPartial}}

\* data directories where each CSV file of OUTPUTS_DIR may be missing
LoadInputs ==
  {[outputs |-> [merged |-> table, qc |-> sensors], files |-> files] :
     table \in {MissingCsv} \cup {CsvFile(<<row>>) : row \in BootRows},
     sensors \in {MissingCsv, CsvFile(QcCohort)},
     files \in {NoFiles, <<FileA, MissingFile>>}}

\* no GET /api/people response yet
NotSeen ==
  [has |-> FALSE, thresholds |-> [method |-> "fixed", low |-> NaN, high |-> NaN],
   since |-> {}]

\* seen after an alert command has succeeded
Noted(op) == IF seen.has THEN [seen EXCEPT !.since = @ \cup {op}] ELSE seen
NoRequest == [op |-> "none"]
Store == [alerts |-> alerts, alertIdCounter |-> alertIdCounter]

(***************************************************************************)
(* State after the module has been evaluated, before startServer runs.     *)
(***************************************************************************)
Init ==
  /\ phase = "boot"
  /\ outputs = [merged |-> MissingCsv, qc |-> MissingCsv]
  /\ merged = <<>>
  /\ qc = <<>>
  /\ attributeFiles = <<>>
  /\ roster = <<>>
  /\ seen = NotSeen
  /\ alerts = <<>>
  /\ alertIdCounter = 1
  /\ clock = 0
  /\ req = NoRequest
  /\ pre = [alerts |-> <<>>, alertIdCounter |-> 1]
  /\ res = [code |-> 0]

\* startServer: await initializeData() (load the two tables, build the
\* roster, then initializeAlerts at one reading `now` of the clock), then
\* listen.
Boot(inputs) ==
  /\ phase = "boot"
  /\ \E input \in inputs, now \in Times :
       /\ clock <= now
       /\ \E made \in {initializeAlerts(input.merged, now, alertIdCounter)} :
            /\ outputs' = [merged |-> CsvFile(input.merged), qc |-> CsvFile(input.qc)]
            /\ merged' = loadCSVData(CsvFile(input.merged))
            /\ qc' = loadCSVData(CsvFile(input.qc))
            /\ attributeFiles' = input.files
            /\ roster' = buildSubjectRoster(input.merged, input.qc, input.files)
            /\ alerts' = alerts \o made
            /\ alertIdCounter' = alertIdCounter + Len(made)
       /\ clock' = now
  /\ phase' = "serving"
  /\ req' = [op |-> "boot"]
  /\ pre' = Store
  /\ res' = [code |-> 0]
  /\ UNCHANGED seen

StartServer == Boot(OnlyMerged(TablesOf(BootRows, MaxRows)))

\* GET /api/alerts
ListAlerts ==
  /\ phase = "serving"
  /\ \E status \in StatusQueries :
       LET list == IF Truthy(status) THEN FilterByStatus(alerts, status) ELSE alerts
       IN /\ req' = [op |-> "list", status |-> status]
          /\ res' = [code |-> 200, alerts |-> list, total |-> Len(list)]
  /\ pre' = Store
  /\ UNCHANGED <<phase, loaded, alerts, alertIdCounter, clock, seen>>

\* POST /api/alerts
CreateAlert ==
  /\ phase = "serving"
  /\ \E body \in CreateBodies :
       /\ req' = [op |-> "create", body |-> body]
       /\ IF ~Truthy(body.subject_id)
            THEN /\ res' = [code |-> 400, error |-> "subject_id required"]
                 /\ UNCHANGED <<alerts, alertIdCounter, clock, seen>>
            ELSE /\ Len(alerts) < MaxAlerts
                 /\ \E createdAt \in Times, updatedAt \in Times :
                      /\ clock <= createdAt
                      /\ createdAt <= updatedAt
                      /\ LET alert == NewAlert(alertIdCounter, body.subject_id,
                                               DefaultTo(body.type, "manual"),
                                               DefaultTo(body.severity, "low"),
                                               NoIndex, createdAt, updatedAt)
                         IN /\ alerts' = Append(alerts, alert)
                            /\ res' = [code |-> 201, alert |-> alert]
                      /\ alertIdCounter' = alertIdCounter + 1
                      /\ clock' = updatedAt
                 /\ seen' = Noted("create")
  /\ pre' = Store
  /\ UNCHANGED <<phase, loaded>>

\* the body shared by the two transition routes: find the alert, 404 if there
\* is none, else assign status and updatedAt and answer with the alert
Transition(op, target) ==
  /\ phase = "serving"
  /\ \E param \in IdParams :
       LET id == parseInt(param)
           i == FindAlert(alerts, id)
       IN /\ req' = [op |-> op, param |-> param]
          /\ IF i = 0
               THEN /\ res' = [code |-> 404, error |-> "Not found"]
                    /\ UNCHANGED <<alerts, clock, seen>>
               ELSE /\ \E now \in Times :
                         /\ clock <= now
                         /\ alerts' = SetStatus(alerts, i, target, now)
                         /\ res' = [code |-> 200, alert |-> alerts'[i]]
                         /\ clock' = now
                    /\ seen' = Noted(op)
  /\ pre' = Store
  /\ UNCHANGED <<phase, loaded, alertIdCounter>>

\* POST /api/alerts/:id/ack
AckAlert == Transition("ack", "acked")

\* POST /api/alerts/:id/decline
DeclineAlert == Transition("decline", "declined")

\* GET /api/risk-levels
RiskLevels ==
  /\ phase = "serving"
  /\ \E query \in MethodQueries, scores \in {ValidIndices(merged)} :
       LET method == DefaultTo(query, "quantile")
           sorted == SortAscending(scores)
           quantile == method = JsString("quantile") /\ Len(scores) >= 3
           lowThreshold == IF quantile THEN Num(sorted[LowPosition(Len(scores)) + 1])
                           ELSE Num(0 - 5)
           highThreshold == IF quantile THEN Num(sorted[HighPosition(Len(scores)) + 1])
                            ELSE Num(5)
           categorized ==
             [i \in 1..Len(scores) |->
                [independence_index |-> Num(scores[i]),
                 risk_level |->
                   IF NumLe(Num(scores[i]), lowThreshold) THEN "Low"
                   ELSE IF NumLe(Num(scores[i]), highThreshold) THEN "Medium"
                   ELSE "High"]]
           count(level) == Cardinality({i \in 1..Len(scores) : categorized[i].risk_level = level})
       IN /\ req' = [op |-> "risk-levels", method |-> query]
          /\ res' = IF Len(scores) = 0
                      THEN [code |-> 200, risk_levels |-> <<>>,
                            meta |-> [method |-> method, error |-> "No valid data"]]
                      ELSE [code |-> 200, risk_levels |-> categorized,
                            counts |-> [Low |-> count("Low"), Medium |-> count("Medium"),
                                        High |-> count("High")],
                            meta |-> [method |-> method, low_threshold |-> lowThreshold,
                                      high_threshold |-> highThreshold,
                                      total |-> Len(categorized)]]
  /\ pre' = Store
  /\ UNCHANGED <<phase, loaded, alerts, alertIdCounter, clock, seen>>

\* GET /api/people/ids
PeopleIds ==
  /\ phase = "serving"
  /\ req' = [op |-> "people-ids"]
  /\ res' = [code |-> 200, ids |-> roster, total |-> Len(roster)]
  /\ pre' = Store
  /\ UNCHANGED <<phase, loaded, alerts, alertIdCounter, clock, seen>>

\* GET /api/people
People ==
  /\ phase = "serving"
  /\ \E answer \in {getSubjects(merged, qc, roster)} :
       /\ res' = [code |-> 200, people |-> answer.people, total |-> Len(answer.people),
                  thresholds |-> answer.thresholds]
       /\ seen' = IF seen.has THEN seen
                  ELSE [has |-> TRUE, thresholds |-> answer.thresholds, since |-> {}]
  /\ merged' = AfterThresholds(merged)
  /\ req' = [op |-> "people"]
  /\ pre' = Store
  /\ UNCHANGED <<phase, outputs, qc, attributeFiles, roster, alerts, alertIdCounter, clock>>

\* GET /api/people/:id
Subject ==
  /\ phase = "serving"
  /\ \E id \in SubjectParams :
       /\ req' = [op |-> "subject", id |-> id]
       /\ res' = getSubject(merged, qc, id)
       /\ merged' = IF RowsOf(merged, id) # <<>> THEN AfterThresholds(merged) ELSE merged
  /\ pre' = Store
  /\ UNCHANGED <<phase, outputs, qc, attributeFiles, roster, alerts, alertIdCounter, clock, seen>>

Next == StartServer \/ ListAlerts \/ CreateAlert \/ AckAlert \/ DeclineAlert

Spec == Init /\ [][Next]_vars

\* The threshold engine and the classifier over populations of up to MaxPop
\* indices: the server boots on such a table and serves GET /api/risk-levels.
StartServerPop == Boot(OnlyMerged(TablesOf(PopRows, MaxPop) \cup {QuantileExample}))

NextClassify == StartServerPop \/ RiskLevels

SpecClassify == Init /\ [][NextClassify]_vars

\* The roster and the subject list: the server boots on tables and attribute
\* files naming subjects in several ways and serves the people routes.
StartServerRoster == Boot(RosterInputs)

NextRoster == StartServerRoster \/ PeopleIds \/ People \/ RiskLevels

SpecRoster == Init /\ [][NextRoster]_vars

\* The subject view next to the subject list: the server boots on tables of up
\* to MaxRecords rows with feature columns and on the QC cohorts, and serves
\* GET /api/people and GET /api/people/:id.
StartServerSubject == Boot(SubjectInputs)

NextSubject == StartServerSubject \/ People \/ Subject

SpecSubject == Init /\ [][NextSubject]_vars

\* initializeData, first step: both files are loaded (Promise.all) and the
\* two tables are put in the cache
LoadTables ==
  /\ phase = "boot"
  /\ \E input \in LoadInputs :
       /\ outputs' = input.outputs
       /\ attributeFiles' = input.files
       /\ merged' = loadCSVData(input.outputs.merged)
       /\ qc' = loadCSVData(input.outputs.qc)
  /\ phase' = "tables"
  /\ req' = [op |-> "load-tables"]
  /\ pre' = Store
  /\ res' = [code |-> 0]
  /\ UNCHANGED <<roster, alerts, alertIdCounter, clock, seen>>

\* initializeData, second step: await buildSubjectRoster()
BuildRoster ==
  /\ phase = "tables"
  /\ roster' = buildSubjectRoster(merged, qc, attributeFiles)
  /\ phase' = "roster"
  /\ req' = [op |-> "build-roster"]
  /\ pre' = Store
  /\ res' = [code |-> 0]
  /\ UNCHANGED <<outputs, merged, qc, attributeFiles, alerts, alertIdCounter, clock, seen>>

\* initializeData, last step: initializeAlerts()
InitAlerts ==
  /\ phase = "roster"
  /\ \E now \in Times :
       /\ clock <= now
       /\ \E made \in {initializeAlerts(merged, now, alertIdCounter)} :
            /\ alerts' = alerts \o made
            /\ alertIdCounter' = alertIdCounter + Len(made)
       /\ clock' = now
  /\ phase' = "loaded"
  /\ req' = [op |-> "init-alerts"]
  /\ pre' = Store
  /\ res' = [code |-> 0]
  /\ UNCHANGED <<loaded, seen>>

\* Awaited when startServer listens without awaiting initializeData
AwaitedNothing(progress) == progress \in {"boot", "tables", "roster", "loaded"}

\* await initializeData(): startServer goes on when the load has run to its end
Awaited(progress) == progress = "loaded"

\* startServer after the await: app.listen on the first free candidate port
Listen ==
  /\ Awaited(phase)
  /\ phase' = "serving"
  /\ req' = [op |-> "listen"]
  /\ pre' = Store
  /\ res' = [code |-> 0]
  /\ UNCHANGED <<loaded, alerts, alertIdCounter, clock, seen>>

\* The load phase step by step on data directories with missing files, then
\* the subject list and the creation of alerts.
NextLoad ==
  LoadTables \/ BuildRoster \/ InitAlerts \/ Listen \/ People \/ CreateAlert

\* a step of startServer from one point of its body to the next
Advance(from, to) == phase = from /\ phase' = to

\* startServer awaits each step of the load in turn and then listens: none of
\* its steps waits for anything but the step before, so each is taken
SpecLoad ==
  /\ Init /\ [][NextLoad]_vars
  /\ WF_phase(Advance("boot", "tables")) /\ WF_phase(Advance("tables", "roster"))
  /\ WF_phase(Advance("roster", "loaded")) /\ WF_phase(Advance("loaded", "serving"))

\* The subject list between alert commands: the server boots on one data
\* directory and serves GET /api/people and the alert routes.
StableInput ==
  [merged |-> <<Row("S2", Cell(<<"2">>), Cell(<<>>)),
                Row("S10", Cell(<<"-", "1", ".", "5">>), Cell(<<>>))>>,
   qc |-> QcCohort, files |-> <<FileA, MissingFile>>]

StartServerStable == Boot({StableInput})

NextStable == StartServerStable \/ People \/ CreateAlert \/ AckAlert \/ DeclineAlert

SpecStable == Init /\ [][NextStable]_vars

(***************************************************************************)
(* Properties.  `req`, `pre` and `res` describe the last handler that ran: *)
(* a property of an operation is an invariant over them.                   *)
(***************************************************************************)
Positions(list) == 1..Len(list)
IdsOf(list) == {list[i].id : i \in Positions(list)}

\* a subject id or a status filter is present: a non-empty string
Present(v) == v.t = "string" /\ v.s # ""
Missing(v) == v.t \in {"undefined", "null"} \/ (v.t = "string" /\ v.s = "")

Transitioned == req.op \in {"ack", "decline"}
\* the alert of the store `pre` that the last transition request names
RequestedExists ==
  /\ ~parseInt(req.param).nan
  /\ parseInt(req.param).n \in IdsOf(pre.alerts)
RequestedBefore ==
  CHOOSE a \in {pre.alerts[i] : i \in Positions(pre.alerts)} : a.id = parseInt(req.param).n

\* C1: a created alert is "open"; after acknowledge(id) on an existing alert
\* its status is "acknowledged", in the response and in the store, so that
\* list("acknowledged") returns it; after decline(id) it is "declined".
C1_AlertLifecycle ==
  /\ (req.op = "create" /\ res.code = 201) => res.alert.status = "open"
  /\ (req.op = "ack" /\ RequestedExists) =>
       /\ res.code = 200
       /\ res.alert.status = "acknowledged"
       /\ res.alert \in {a \in {alerts[i] : i \in Positions(alerts)} :
                           a.status = "acknowledged"}
  /\ (req.op = "decline" /\ RequestedExists) =>
       /\ res.code = 200
       /\ res.alert.status = "declined"

\* C2: in every reachable state every alert's status is one of open,
\* acknowledged, declined.
C2_StatusDomain ==
  \A i \in Positions(alerts) : alerts[i].status \in {"open", "acknowledged", "declined"}

\* C3: create with a present subjectId appends exactly one alert at the end
\* of the store, with status "open", type defaulting to "manual" and severity
\* to "low", leaves the existing alerts as they were and returns the alert
\* it stored.
C3_CreateAppends ==
  (req.op = "create" /\ Present(req.body.subject_id)) =>
    /\ res.code = 201
    /\ Len(alerts) = Len(pre.alerts) + 1
    /\ SubSeq(alerts, 1, Len(pre.alerts)) = pre.alerts
    /\ alerts[Len(alerts)] = res.alert
    /\ res.alert.status = "open"
    /\ res.alert.subject_id = req.body.subject_id
    /\ res.alert.type =
         (IF req.body.type.t = "undefined" THEN JsString("manual") ELSE req.body.type)
    /\ res.alert.severity =
         (IF req.body.severity.t = "undefined" THEN JsString("low") ELSE req.body.severity)

C3_Witness ==
  /\ req.op = "create"
  /\ res.code = 201
  /\ Len(pre.alerts) >= 1
  /\ req.body.type.t = "undefined"
  /\ res.alert.type = JsString("manual")
  /\ alerts = Append(pre.alerts, res.alert)

\* C4: alert ids are pairwise distinct and strictly increasing in insertion
\* order, over load-time and created alerts alike, every id in the store is
\* below the counter, the counter never went down, and a created alert's id
\* is at least the counter it found, hence above every id allocated before.
C4_MonotonicIds ==
  /\ \A i, j \in Positions(alerts) : i < j => alerts[i].id < alerts[j].id
  /\ \A i \in Positions(alerts) : alerts[i].id < alertIdCounter
  /\ \A i \in Positions(pre.alerts) : pre.alerts[i].id < pre.alertIdCounter
  /\ pre.alertIdCounter <= alertIdCounter
  /\ (req.op = "create" /\ res.code = 201) =>
       /\ res.alert.id >= pre.alertIdCounter
       /\ \A i \in Positions(pre.alerts) : pre.alerts[i].id < res.alert.id

C4_Witness ==
  /\ req.op = "create"
  /\ res.code = 201
  /\ Len(alerts) >= 2
  /\ alerts[1].type \in {JsString("risk_high"), JsString("low_activity")}
  /\ res.alert.id > alerts[1].id

\* C5: create with a missing subjectId answers with the validation error and
\* leaves the store as it was: no alert appended, the id counter not advanced.
C5_CreateRejected ==
  (req.op = "create" /\ Missing(req.body.subject_id)) =>
    /\ res.code = 400
    /\ alerts = pre.alerts
    /\ alertIdCounter = pre.alertIdCounter

C5_Witness ==
  /\ req.op = "create"
  /\ req.body.subject_id = JsString("")
  /\ res.code = 400
  /\ Len(alerts) >= 1
  /\ alertIdCounter = pre.alertIdCounter

\* C6: acknowledge(id) and decline(id) answer not-found exactly when no alert
\* of the store has the requested id, and then the store is left as it was.
C6_NotFound ==
  Transitioned =>
    /\ res.code \in {200, 404}
    /\ res.code = 404 <=> ~RequestedExists
    /\ res.code = 404 => (alerts = pre.alerts /\ alertIdCounter = pre.alertIdCounter)

C6_Witness ==
  /\ req.op = "ack"
  /\ res.code = 404
  /\ Len(alerts) >= 1
  /\ alerts = pre.alerts

\* C7: alerts are never deleted: every step keeps every alert id of the
\* store in the store, and the number of alerts does not decrease.
C7_NeverDeleted ==
  [][/\ IdsOf(alerts) \subseteq IdsOf(alerts')
     /\ Len(alerts') >= Len(alerts)]_vars

C7_Witness ==
  /\ req.op = "decline"
  /\ res.code = 200
  /\ Len(alerts) >= 2
  /\ IdsOf(pre.alerts) = IdsOf(alerts)

\* C8: acknowledge and decline are not guarded by the current status: on an
\* existing alert that is already resolved the call succeeds and overwrites
\* the status, with "acknowledged" for acknowledge and "declined" for decline.
C8_Overwrite ==
  (Transitioned /\ RequestedExists /\ RequestedBefore.status # "open") =>
    /\ res.code = 200
    /\ res.alert.status = (IF req.op = "ack" THEN "acknowledged" ELSE "declined")

\* C9: list with a status filter returns exactly the alerts of that status,
\* in insertion order; list without a filter returns every alert in
\* insertion order; list changes nothing in the store.
C9_List ==
  req.op = "list" =>
    /\ alerts = pre.alerts
    /\ alertIdCounter = pre.alertIdCounter
    /\ res.code = 200
    /\ IF Present(req.status)
         THEN /\ \A k \in Positions(res.alerts) :
                   /\ res.alerts[k].status = req.status.s
                   /\ \E i \in Positions(alerts) : alerts[i] = res.alerts[k]
              /\ \A i \in Positions(alerts) :
                   alerts[i].status = req.status.s =>
                     \E k \in Positions(res.alerts) : res.alerts[k] = alerts[i]
              /\ \A k, l \in Positions(res.alerts) :
                   k < l => res.alerts[k].id < res.alerts[l].id
         ELSE res.alerts = alerts

C9_Witness ==
  /\ req.op = "list"
  /\ req.status = JsString("declined")
  /\ Len(res.alerts) >= 1
  /\ Len(res.alerts) < Len(alerts)

\* the classification rule: Low up to low, Medium above low up to high, High above high
FollowsRule(score, low, high, level) ==
  /\ score <= low => level = "Low"
  /\ (low < score /\ score <= high) => level = "Medium"
  /\ score > high => level = "High"

\* C10: classify returns Low when score <= low, Medium when low < score <=
\* high and High when score > high; classify(low) is Low, classify(high) is
\* Medium when low < high, and a score just above high is High.  Checked for
\* categorizeRisk on every index of the loaded table under the thresholds of
\* that table, and for the levels GET /api/risk-levels reports.
C10_Classify ==
  phase = "serving" =>
    LET th == computeRiskThresholds(merged)
        scores == ValidIndices(merged)
    IN /\ \A i \in Positions(scores) :
            FollowsRule(scores[i], th.low.n, th.high.n, categorizeRisk(Num(scores[i]), th))
       /\ categorizeRisk(th.low, th) = "Low"
       /\ th.low.n < th.high.n => categorizeRisk(th.high, th) = "Medium"
       /\ categorizeRisk(Num(th.high.n + 1), th) = "High"
       /\ (req.op = "risk-levels" /\ Len(res.risk_levels) > 0) =>
            \A k \in Positions(res.risk_levels) :
              FollowsRule(res.risk_levels[k].independence_index.n,
                          res.meta.low_threshold.n, res.meta.high_threshold.n,
                          res.risk_levels[k].risk_level)

C10_Witness ==
  /\ phase = "serving"
  /\ computeRiskThresholds(merged).method = "quantile"
  /\ computeRiskThresholds(merged).low.n < computeRiskThresholds(merged).high.n
  /\ req.op = "risk-levels"
  /\ Len(res.risk_levels) >= 3
  /\ res.counts.Low >= 1
  /\ res.counts.Medium >= 1
  /\ res.counts.High >= 1


Rank(level) == CASE level = "Low" -> 1 [] level = "Medium" -> 2 [] level = "High" -> 3

\* thresholds (in either order) and scores the classifier is compared on
CutPoints == (0 - 1) .. 1
ScorePoints == (0 - 2) .. 2

\* C11: the classifier is monotonic: a larger score never gets a lower tier
\* (Low < Medium < High): under the thresholds of the loaded table, for the
\* scores of the table and the scores at and next to the cut points; under
\* any pair of thresholds of CutPoints, for the scores of ScorePoints; and
\* for the levels GET /api/risk-levels reports.
C11_Monotonic ==
  phase = "serving" =>
    LET th == computeRiskThresholds(merged)
        scores == ValidIndices(merged)
        points == {scores[i] : i \in Positions(scores)}
                    \cup {th.low.n - 1, th.low.n, th.low.n + 1,
                          th.high.n - 1, th.high.n, th.high.n + 1}
    IN /\ \A a, b \in points :
            a > b => Rank(categorizeRisk(Num(a), th)) >= Rank(categorizeRisk(Num(b), th))
       /\ \A low, high \in CutPoints, a, b \in ScorePoints :
            a > b => Rank(categorizeRisk(Num(a), [low |-> Num(low), high |-> Num(high)]))
                       >= Rank(categorizeRisk(Num(b), [low |-> Num(low), high |-> Num(high)]))
       /\ (req.op = "risk-levels" /\ Len(res.risk_levels) > 0) =>
            \A k, l \in Positions(res.risk_levels) :
              res.risk_levels[k].independence_index.n > res.risk_levels[l].independence_index.n
                => Rank(res.risk_levels[k].risk_level) >= Rank(res.risk_levels[l].risk_level)

C11_Witness ==
  /\ phase = "serving"
  /\ req.op = "risk-levels"
  /\ Len(res.risk_levels) = 3
  /\ res.risk_levels[1].risk_level = "High"
  /\ res.risk_levels[2].risk_level = "Low"
  /\ res.risk_levels[3].risk_level = "Medium"
  /\ res.risk_levels[1].independence_index.n > res.risk_levels[3].independence_index.n
  /\ res.risk_levels[3].independence_index.n > res.risk_levels[2].independence_index.n

\* the element at position k (from 0) of the ascending order of population
IsOrderStatistic(v, population, k) ==
  /\ \E i \in Positions(population) : population[i] = v
  /\ Cardinality({i \in Positions(population) : population[i] < v}) <= k
  /\ Cardinality({i \in Positions(population) : population[i] <= v}) > k

AlertsFor(sid, type) ==
  {k \in Positions(alerts) : alerts[k].subject_id = JsString(sid)
                               /\ alerts[k].type = JsString(type)}

\* the index cell holds a number
ValidIndex(row) ==
  row.independence_index.def /\ ~parseFloat(row.independence_index.c).nan

\* C15: right after load, a subject with a valid index has an open
\* risk_high / high alert iff its tier under the load-time thresholds is
\* High, and an open low_activity / medium alert iff its active minutes are
\* below 60; a subject whose index is absent or not a number has no alert.
C15_LoadAlerts ==
  req.op = "boot" =>
    \A i \in Positions(merged) :
      LET row == merged[i]
          th == computeRiskThresholds(merged)
          inactive == /\ row.active_minutes.def
                      /\ NumLt(parseFloat(row.active_minutes.c), Num(600))
      IN IF ValidIndex(row)
           THEN /\ (AlertsFor(row.subject_id, "risk_high") # {}
                      <=> categorizeRisk(parseFloat(row.independence_index.c), th) = "High")
                /\ (AlertsFor(row.subject_id, "low_activity") # {} <=> inactive)
                /\ \A k \in AlertsFor(row.subject_id, "risk_high") :
                     alerts[k].severity = JsString("high") /\ alerts[k].status = "open"
                /\ \A k \in AlertsFor(row.subject_id, "low_activity") :
                     alerts[k].severity = JsString("medium") /\ alerts[k].status = "open"
           ELSE \A k \in Positions(alerts) : alerts[k].subject_id # JsString(row.subject_id)

\* C16: right after load, a subject has at most one risk_high alert and at
\* most one low_activity alert, however many rows it has in the table.
C16_OnePerSubject ==
  req.op = "boot" =>
    \A i \in Positions(merged), type \in {"risk_high", "low_activity"} :
      Cardinality(AlertsFor(merged[i].subject_id, type)) <= 1


\* the fields of a line, split at its commas
RECURSIVE Fields(_)
Fields(line) ==
  LET comma == FirstComma(line, 1)
  IN IF comma = 0 THEN <<line>>
     ELSE <<SubSeq(line, 1, comma - 1)>> \o Fields(Drop(line, comma))

\* the subject id a line of an attribute file names: its second field, when
\* further fields follow, without quotes and surrounding white space
NamedBy(line) ==
  LET fields == Fields(line)
      bare == IF Len(fields) >= 3 THEN trim(fields[2]) ELSE <<>>
      id == IF Len(bare) >= 2 /\ Head(bare) = "\"" /\ bare[Len(bare)] = "\""
              THEN trim(SubSeq(bare, 2, Len(bare) - 1))
              ELSE bare
  IN IF id = <<>> \/ toLowerCase(id) = SubjectIdWord THEN {} ELSE {id}

\* the subject ids present in the sources as they were loaded
SourceIds ==
  {Chars(merged[i].subject_id) : i \in {j \in Positions(merged) : merged[j].subject_id # ""}}
    \cup {Chars(qc[i].subject_id) : i \in {j \in Positions(qc) : qc[j].subject_id # ""}}
    \cup UNION {UNION {NamedBy(attributeFiles[f].lines[l]) :
                         l \in Positions(attributeFiles[f].lines)} :
                  f \in {g \in Positions(attributeFiles) : attributeFiles[g].exists}}

Occurrences(list, id) == Cardinality({i \in Positions(list) : list[i] = id})

\* C17: every subject id present in the primary table, the QC table or an
\* attribute file appears exactly once in the roster, and in the list
\* GET /api/people/ids returns.
C17_RosterComplete ==
  phase = "serving" =>
    /\ \A id \in SourceIds : Occurrences(roster, id) = 1
    /\ req.op = "people-ids" =>
         /\ \A id \in SourceIds : Occurrences(res.ids, id) = 1
         /\ res.total = Len(res.ids)

C17_Witness ==
  /\ req.op = "people-ids"
  /\ Len(merged) = 2
  /\ merged[1].subject_id = "S2" /\ merged[2].subject_id = "S2"
  /\ qc = QcCohort
  /\ attributeFiles = <<FileA, FileB>>
  /\ res.ids = <<Chars("S1"), Chars("S10"), Chars("S2"), Chars("S3")>>


\* the orders in which the sources of the roster can be read
Orders(n) == {p \in [1..n -> 1..n] : \A i, j \in 1..n : p[i] = p[j] => i = j}

\* C18: the roster is strictly ascending in the order of the code units of
\* its entries (sorted, no duplicates), and building it again from the same
\* tables and files, with the sources read in any order, gives the same list
\* (compared right after the load: no later step changes tables or roster).
C18_RosterSorted ==
  phase = "serving" =>
    /\ \A i, j \in Positions(roster) : i < j => LexLess(roster[i], roster[j])
    /\ req.op = "boot" =>
         \A sources \in {RosterSources(merged, qc, attributeFiles)} :
           \A p \in Orders(Len(sources)) :
             RosterOf([i \in 1..Len(sources) |-> sources[p[i]]]) = roster

C18_Witness ==
  /\ req.op = "boot"
  /\ Len(merged) = 2
  /\ merged[1].subject_id = "S2" /\ merged[2].subject_id = "S1"
  /\ qc = QcCohort
  /\ attributeFiles = <<FileA, FileB>>
  /\ roster = <<Chars("S1"), Chars("S10"), Chars("S2"), Chars("S3")>>

\* C19: no roster entry is empty, has leading or trailing white space or is
\* the header word "subject_id", and raw ids that differ only by surrounding
\* white space give one roster entry, whatever source they come from.
C19_Canonical ==
  phase = "serving" =>
    /\ \A i \in Positions(roster) :
         /\ roster[i] # <<>>
         /\ trim(roster[i]) = roster[i]
         /\ toLowerCase(roster[i]) # SubjectIdWord
    /\ \A i, j \in Positions(roster) : trim(roster[i]) = trim(roster[j]) => i = j


\* the ids of a subject list
PeopleIdsOf(people) == {people[i].subject_id : i \in Positions(people)}

\* C13: the method of the thresholds names the policy applied.  For
\* GET /api/people with three or more indices it is the combined quantile
\* when model and QC-derived indices are mixed and "quantile" when all are
\* model indices, and it is "fixed" exactly when fewer than three indices
\* were available; for GET /api/risk-levels it is "fixed" exactly when -0.5
\* and 0.5 were applied.
C13_MethodNamesPolicy ==
  /\ req.op = "people" =>
       LET withIndex == {i \in Positions(res.people) : res.people[i].independence_index.has}
           sources == {res.people[i].index_source : i \in withIndex}
       IN /\ (Cardinality(withIndex) >= 3 /\ sources = {"model", "qc_derived"})
               => res.thresholds.method = "quantile_combined"
          /\ (Cardinality(withIndex) >= 3 /\ sources = {"model"})
               => res.thresholds.method = "quantile"
          /\ res.thresholds.method = "fixed" <=> Cardinality(withIndex) < 3
  /\ (req.op = "risk-levels" /\ Len(res.risk_levels) > 0) =>
       (res.meta.method = JsString("fixed")
          <=> (Len(res.risk_levels) < 3 /\ res.meta.low_threshold = Num(0 - 5)
                 /\ res.meta.high_threshold = Num(5)))

C20_SubjectsAreRoster ==
  req.op = "people" =>
    /\ PeopleIdsOf(res.people) = {roster[i] : i \in Positions(roster)}
    /\ \A i, j \in Positions(res.people) :
         res.people[i].subject_id = res.people[j].subject_id => i = j


\* the position in the store `pre` of the alert the last transition names
RequestedPosition ==
  CHOOSE i \in Positions(pre.alerts) : pre.alerts[i].id = parseInt(req.param).n

\* C28: handlers run to completion, so whatever the order in which create,
\* acknowledge and decline requests are served, no two alerts have the same
\* id, the ids in the store are exactly those allocated (1 up to the counter,
\* none lost or reused), a create takes the id the counter held and advances
\* it by one, and after a transition the alert has the status that transition
\* wrote, whatever an earlier transition of the same alert had written.
C28_Atomic ==
  /\ \A i, j \in Positions(alerts) : alerts[i].id = alerts[j].id => i = j
  /\ IdsOf(alerts) = 1..(alertIdCounter - 1)
  /\ (req.op = "create" /\ res.code = 201) =>
       /\ res.alert.id = pre.alertIdCounter
       /\ alertIdCounter = pre.alertIdCounter + 1
  /\ (Transitioned /\ res.code = 200) =>
       /\ alerts[RequestedPosition].status = res.alert.status
       /\ req.op = "decline" => res.alert.status = "declined"
       /\ req.op = "ack" => res.alert.status \notin {"open", "declined"}

C28_Witness ==
  /\ req.op = "ack"
  /\ res.code = 200
  /\ pre.alerts[RequestedPosition].status = "declined"
  /\ alerts[RequestedPosition].status # "declined"
  /\ Len(alerts) = 2
  /\ alerts[2].type = JsString("manual")

\* C29: a successful acknowledge or decline changes only the status and
\* updatedAt of the alert it names: the other fields of that alert, every
\* other alert, the id counter, the roster and the loaded tables stay as
\* they were.
C29_OnlyStatus ==
  /\ []((Transitioned /\ res.code = 200) =>
          /\ Len(alerts) = Len(pre.alerts)
          /\ \A k \in Positions(alerts) : k # RequestedPosition => alerts[k] = pre.alerts[k]
          /\ alerts[RequestedPosition] =
               [pre.alerts[RequestedPosition]
                  EXCEPT !.status = alerts[RequestedPosition].status,
                         !.updatedAt = alerts[RequestedPosition].updatedAt]
          /\ alertIdCounter = pre.alertIdCounter)
  /\ [][req'.op \in {"ack", "decline"} => loaded' = loaded]_vars

C29_Witness ==
  /\ req.op = "decline"
  /\ res.code = 200
  /\ pre.alerts[RequestedPosition].status = "open"
  /\ Len(alerts) = 2
  /\ alerts[2] = pre.alerts[2]
  /\ alerts[1].createdAt < alerts[1].updatedAt
  /\ roster # <<>>


\* the rows of a table that belong to the subject sid
RowsNaming(table, sid) == {i \in Positions(table) : Chars(table[i].subject_id) = sid}

\* the primary table gives sid an index: the cell of its first row is not empty
HasPrimaryIndex(sid) ==
  \E i \in RowsNaming(merged, sid) :
    /\ \A j \in RowsNaming(merged, sid) : i <= j
    /\ merged[i].independence_index.def
    /\ merged[i].independence_index.c # <<>>

\* the QC table gives sid an average: a cell of its last row is not empty
HasQcAverage(sid) ==
  \E i \in RowsNaming(qc, sid) :
    /\ \A j \in RowsNaming(qc, sid) : j <= i
    /\ \/ qc[i].avg_steps.def /\ qc[i].avg_steps.c # <<>>
       \/ qc[i].avg_active_minutes.def /\ qc[i].avg_active_minutes.c # <<>>

\* C22: in the list of GET /api/people a subject with neither a primary index
\* nor a QC average has index_source "unknown", a null index and a null risk
\* level; the thresholds are computed from the indices of the other subjects
\* only, and a subject has a risk level only if it has an index.
C22_Unknown ==
  req.op = "people" =>
    /\ \A i \in Positions(res.people) :
         LET p == res.people[i]
         IN /\ (~HasPrimaryIndex(p.subject_id) /\ ~HasQcAverage(p.subject_id)) =>
                 /\ p.index_source = "unknown"
                 /\ ~p.independence_index.has
                 /\ p.risk_level = "null"
            /\ p.risk_level # "null" => p.independence_index.has
    /\ res.thresholds.method = "fixed" <=>
         Cardinality({i \in Positions(res.people) :
                        HasPrimaryIndex(res.people[i].subject_id)
                          \/ HasQcAverage(res.people[i].subject_id)}) < 3


\* the rows of the QC table whose averages make the cohort of GET /api/people
\* (the last row of each subject, when the cell is not empty) and of
\* GET /api/people/:id (every row that has the column)
ListCohort(field) ==
  {i \in Positions(qc) :
     /\ \A j \in RowsNaming(qc, Chars(qc[i].subject_id)) : j <= i
     /\ qc[i][field].def /\ qc[i][field].c # <<>>}

ViewCohort(field) == {i \in Positions(qc) : qc[i][field].def}

Average(i, field) == parseFloat(qc[i][field].c)

RECURSIVE Total(_, _)
Total(cohort, field) ==
  IF cohort = {} THEN 0
  ELSE LET i == CHOOSE k \in cohort : TRUE
       IN Average(i, field).n + Total(cohort \ {i}, field)

RECURSIVE Scatter(_, _, _, _)
Scatter(rest, field, n, total) ==
  IF rest = {} THEN 0
  ELSE LET i == CHOOSE k \in rest : TRUE
           e == Average(i, field).n * n - total
       IN e * e + Scatter(rest \ {i}, field, n, total)

\* the z-score of row i within a cohort as a fraction num / den: the offset
\* from the mean over the sample standard deviation (1 when the cohort has
\* no spread); 0 when row i is not in the cohort or a value is unreadable
ZScore(i, field, cohort) ==
  LET n == Cardinality(cohort)
      total == Total(cohort, field)
      m == IF n > 1 THEN n - 1 ELSE 1
      D == Scatter(cohort, field, n, total)
      r == CHOOSE k \in 0..1000 : k * k * m <= D /\ D < (k + 1) * (k + 1) * m
  IN IF i \notin cohort \/ \E k \in cohort : Average(k, field).nan
       THEN [num |-> 0, den |-> 1]
       ELSE [num |-> Average(i, field).n * n - total, den |-> IF r = 0 THEN 10 * n ELSE r]

\* index (in tenths) is 0.7 zs + 0.3 za to the nearest tenth
IsWeightedSum(index, zs, za) ==
  LET gap == index * zs.den * za.den - (7 * zs.num * za.den + 3 * za.num * zs.den)
  IN 10 * gap <= 6 * zs.den * za.den /\ 0 - 10 * gap <= 6 * zs.den * za.den

LastRow(sid) == CHOOSE i \in RowsNaming(qc, sid) : \A j \in RowsNaming(qc, sid) : j <= i
FirstRow(sid) == CHOOSE i \in RowsNaming(qc, sid) : \A j \in RowsNaming(qc, sid) : i <= j

C23_NotFound ==
  req.op = "subject" =>
    /\ res.code \in {200, 404}
    /\ res.code = 404 <=> (RowsNaming(merged, req.id) = {} /\ RowsNaming(qc, req.id) = {})
    /\ res.code = 404 => res = [code |-> 404, error |-> "Not found"]
    /\ res.code = 200 =>
         /\ res.subject_id = req.id
         /\ RowsNaming(merged, req.id) # {} =>
              /\ res.records_count = Cardinality(RowsNaming(merged, req.id))
              /\ res.index_source # "qc_derived"
              /\ res.explanations.thresholds.method \in {"quantile", "fixed"}
         /\ RowsNaming(merged, req.id) = {} =>
              /\ res.records_count = 0
              /\ res.index_source = "qc_derived"
              /\ res.metrics.independence_index.has

C23_Witness ==
  /\ req.op = "subject"
  /\ res.code = 404
  /\ merged # <<>>
  /\ qc # <<>>

\* the last row of the primary table that names the subject requested
LatestRow == merged[CHOOSE i \in RowsNaming(merged, req.id) :
                      \A j \in RowsNaming(merged, req.id) : j <= i]

\* C24: when the index of the subject's latest record is missing or empty,
\* the explanation of the subject view has a null risk level and a summary
\* saying that the risk level is unavailable; and the risk level of the
\* explanation is always the risk level of the metrics of the same view.
C24_ExplanationAgrees ==
  (req.op = "subject" /\ res.code = 200) =>
    /\ res.explanations.risk_level = res.metrics.risk_level
    /\ (RowsNaming(merged, req.id) # {}
          /\ (~LatestRow.independence_index.def \/ LatestRow.independence_index.c = <<>>)) =>
         /\ res.explanations.risk_level = "null"
         /\ res.explanations.summary_text.kind = "unavailable"


\* the contributions of an explanation are ordered by non-increasing
\* magnitude, each with the direction of its sign
ContributionsOrdered(list) ==
  /\ \A i, j \in Positions(list) :
       i < j => Magnitude(list[i].value) >= Magnitude(list[j].value)
  /\ \A i \in Positions(list) : list[i].direction = "high" <=> list[i].value >= 0

\* C25: the contributions of an explanation are ordered by non-increasing
\* absolute value, there are at most 5 of them (the top 5), each has the
\* direction "high" exactly when its value is at least 0, and the summary
\* text joins at most 3 reason phrases.
C25_TopFive ==
  (req.op = "subject" /\ res.code = 200) =>
    /\ ContributionsOrdered(res.explanations.contributions)
    /\ Len(res.explanations.contributions) <= 5
    /\ Len(res.explanations.summary_text.reasons) <= 3


\* C30: for a subject of the primary or the QC table, GET /api/people/:id
\* reports the independence index and the risk level the entry of that
\* subject has in the list of GET /api/people over the same data.
C30_ViewsAgree ==
  (req.op = "subject" /\ res.code = 200) =>
    \A list \in {getSubjects(merged, qc, roster).people} :
      \E k \in Positions(list) :
        /\ list[k].subject_id = req.id
        /\ list[k].independence_index = res.metrics.independence_index
        /\ list[k].risk_level = res.metrics.risk_level


\* the subject ids named by the rows of a CSV file that exists
NamedByTable(file) ==
  {Chars(file.rows[i].subject_id) :
     i \in {j \in Positions(file.rows) : file.exists /\ file.rows[j].subject_id # ""}}

\* the subject ids named by the files of the data directory that exist
DiskIds ==
  NamedByTable(outputs.merged) \cup NamedByTable(outputs.qc)
    \cup UNION {UNION {NamedBy(attributeFiles[f].lines[l]) :
                         l \in Positions(attributeFiles[f].lines)} :
                  f \in {g \in Positions(attributeFiles) : attributeFiles[g].exists}}

\* an alert made by initializeAlerts
Generated(a) == a.type \in {JsString("risk_high"), JsString("low_activity")}

\* the state of the engine is what the files that exist hold
LoadedFromDisk ==
  /\ phase # "boot" =>
       /\ merged = IF outputs.merged.exists THEN outputs.merged.rows ELSE <<>>
       /\ qc = IF outputs.qc.exists THEN outputs.qc.rows ELSE <<>>
  /\ phase \in {"loaded", "serving"} =>
       /\ {roster[i] : i \in Positions(roster)} = DiskIds
       /\ \A i \in Positions(alerts) :
            Generated(alerts[i]) =>
              Chars(alerts[i].subject_id.s) \in NamedByTable(outputs.merged)
  /\ req.op = "people" => PeopleIdsOf(res.people) = DiskIds

\* C26: a source file that is missing gives an empty table, the load goes on
\* to its end all the same, and the roster, the subject list and the initial
\* alerts come from the files that exist and from nothing else.
C26_MissingSource ==
  /\ []LoadedFromDisk
  /\ (phase = "boot") ~> (phase = "serving")

C26_Witness ==
  /\ req.op = "people"
  /\ outputs.merged.exists /\ ~outputs.qc.exists /\ ~attributeFiles[2].exists
  /\ Len(roster) = 3
  /\ res.total = 3
  /\ \E i \in Positions(alerts) : Generated(alerts[i])


\* the alerts of the store that initializeAlerts made, as it made them
GeneratedAlerts ==
  LET made == {i \in Positions(alerts) : Generated(alerts[i])}
  IN [i \in 1..Cardinality(made) |->
        [id |-> alerts[i].id, subject_id |-> alerts[i].subject_id, type |-> alerts[i].type,
         generated |-> Generated(alerts[i])]]

\* the load has run to its end: both tables are those of the files, the
\* roster is the roster of these tables and the attribute files, and the
\* store starts with the initial alerts of the primary table, ids from 1
LoadComplete ==
  /\ merged = outputs.merged.rows
  /\ qc = outputs.qc.rows
  /\ roster = buildSubjectRoster(merged, qc, attributeFiles)
  /\ \A made \in {initializeAlerts(merged, 0, 1)} :
       GeneratedAlerts = [i \in 1..Len(made) |->
                            [id |-> i, subject_id |-> made[i].subject_id,
                             type |-> made[i].type, generated |-> TRUE]]

====
